---- MODULE Spec2Model ----
(***************************************************************************)
(* Model of the unisat-ai agent-kit examples:                              *)
(*   beginner/bitcoin-query/agent.py      (agent start-up)                 *)
(*   intermediate/brc20-analyst/agent.py  (agent start-up, knowledge base) *)
(*   beginner/bitcoin-query/client.py     (test client driver)             *)
(*   intermediate/brc20-analyst/client.py (test client driver)             *)
(*                                                                         *)
(* Spec       : a process launches one of the two agent modules; the       *)
(*              module-level statements run top to bottom, one action per  *)
(*              statement (group); external constructors answer            *)
(*              nondeterministically (return or raise).                    *)
(* ClientSpec : a process launches one of the two test clients against a   *)
(*              server that answers each POST nondeterministically.        *)
(*                                                                         *)
(* Text is a sequence of tokens; concatenation is \o and "substring" is a  *)
(* contiguous sub-sequence.  Exceptions raised by external calls are       *)
(* subclasses of Python's Exception (KeyboardInterrupt and SystemExit are  *)
(* not outcomes of a constructor).                                         *)
(***************************************************************************)
EXTENDS Naturals, Sequences, FiniteSets

VARIABLES
    script,               \* which module the process runs
    as_main,              \* __name__ == "__main__"
    environ,              \* os.environ: [UNISAT_MCP_URL, BRC20_KB_PATH]
    pc,                   \* position in the module / coroutine
    out,                  \* stdout: sequence of printed lines
    \* ---- agent modules ----
    UNISAT_MCP_URL,
    KNOWLEDGE_BASE_PATH,
    tools,
    has_mcp,
    knowledge,
    instruction,
    agent,                \* bitcoin_query_agent / brc20_analyst_agent
    short_term_memory,
    server,               \* what agent_server_app.run was called with
    calls,                \* external constructors/methods called, with outcome
    steps,                \* start-up statements executed so far, in order
    past,                 \* agents assembled by earlier launches
    \* ---- test clients ----
    argv,
    base_url,
    qi,                   \* index of the current query in test_queries
    clients,              \* open httpx.AsyncClient contexts (by query index)
    inflight,             \* POSTs awaiting their response (by query index)
    response,             \* the httpx response of the current call
    exc,                  \* exception travelling up the stack, or None
    result,               \* value returned by test_agent
    posts,                \* POSTs sent, in order
    served                \* what the server answered to each POST, in order

agentVars == <<UNISAT_MCP_URL, KNOWLEDGE_BASE_PATH, tools, has_mcp, knowledge,
               instruction, agent, short_term_memory, server, calls, steps, past,
               as_main, environ>>
clientVars == <<argv, base_url, qi, clients, inflight, response, exc, result,
                posts, served>>
vars == <<script, pc, out, agentVars, clientVars>>

----------------------------------------------------------------------------
(* Bounds *)

\* Number of process launches whose assembled agents are compared.
MaxRuns == 2

----------------------------------------------------------------------------
(* Common values *)

None == "None"
Unset == "<unset>"

BITCOIN_AGENT == "bitcoin-query/agent.py"
ANALYST_AGENT == "brc20-analyst/agent.py"
BITCOIN_CLIENT == "bitcoin-query/client.py"
ANALYST_CLIENT == "brc20-analyst/client.py"
AgentScripts == {BITCOIN_AGENT, ANALYST_AGENT}
ClientScripts == {BITCOIN_CLIENT, ANALYST_CLIENT}

\* Exception subclasses an external call may raise.
ExceptionClasses == {"ValueError", "ConnectionError"}

\* isinstance(e, cls) for the classes above.
IsInstance(e, cls) == cls = "Exception" \/ cls = e

Line(tag, text) == [tag |-> tag, text |-> text]

\* sub occurs in text as a contiguous sub-sequence (Python's `sub in text`).
Contains(text, sub) ==
    \E i \in 1..(Len(text) + 1) :
        /\ i + Len(sub) - 1 <= Len(text)
        /\ \A j \in 1..Len(sub) : text[i + j - 1] = sub[j]

PyBool(b) == IF b THEN "True" ELSE "False"

----------------------------------------------------------------------------
(* Agent modules: constants *)

DEFAULT_MCP_URL == "http://localhost:3000/mcp"
DEFAULT_KB_PATH == "<module dir>/knowledgebase_docs"
MCP_TIMEOUT == 30
SERVER_HOST == "0.0.0.0"
SERVER_PORT == 8000

\* Values the two environment variables may hold when the process starts.
McpUrlSettings == {Unset, "http://mcp.example:3000/mcp"}
KbPathSettings == {Unset, "/data/brc20_docs"}

\* os.getenv(name, default)
GetEnv(value, default) == IF value = Unset THEN default ELSE value

\* The string literal of bitcoin-query/agent.py, one token per section.
BITCOIN_QUERY_AGENT_TEMPLATE ==
    <<"role", "## operations", "## answer rules", "## notes", "\n">>

\* prompts/analyst_prompt.py is not part of the sources: a static template.
BRC20_ANALYST_INSTRUCTION == <<"brc20 analyst prompt">>

\* The sentence appended when the MCP server is not connected.
MCP_WARNING == <<"**not connected to UniSat MCP Server; set UNISAT_MCP_URL and restart**">>
MCP_WARNING_SUFFIX == <<"\n\n">> \o MCP_WARNING

\* KnowledgeBase(backend="local")
KB_STORE == "KnowledgeBase(backend=local)"

\* MCPToolset(connection_params=StreamableHTTPConnectionParams(url, timeout=30))
MCPToolset(url) == [type |-> "MCPToolset", url |-> url, timeout |-> MCP_TIMEOUT]

NoAgent == [name |-> "", instruction |-> <<>>, tools |-> <<>>, knowledgebase |-> None]
NoServer == [host |-> "", port |-> 0]

Call(fn, res) == [fn |-> fn, res |-> res]

\* Mutant: the except clause names one exception class only.
McpExceptClauseNarrow == "ConnectionError"

\* The class named by the except clause around MCPToolset(...).
McpExceptClause == "Exception"

\* The class named by the except clause around the knowledge base.
KbExceptClause == "Exception"

Template(s) ==
    IF s = BITCOIN_AGENT THEN BITCOIN_QUERY_AGENT_TEMPLATE ELSE BRC20_ANALYST_INSTRUCTION

----------------------------------------------------------------------------
(* Test clients: values *)

\* A JSON value as Python sees it after response.json():
\*   object : a = keys, b = their (string) values
\*   array  : a = elements (strings)
\*   string : a = the text, as tokens
\*   number : a = <<literal>>;  null : a = <<>>
\*   invalid: a body that is not JSON
J(kind, a, b) == [kind |-> kind, a |-> a, b |-> b]
NoJson == J("unset", <<>>, <<>>)

\* Bodies a /chat endpoint may answer with.
Bodies ==
    { J("object", <<"answer">>, <<"123456">>),
      J("object", <<"detail">>, <<"no answer field">>),
      J("array", <<"ORDI">>, <<>>),
      J("array", <<"answer">>, <<>>),
      J("string", <<"pong">>, <<>>),
      J("string", <<"the ", "answer", " is 42">>, <<>>),
      J("number", <<"42">>, <<>>),
      J("null", <<>>, <<>>),
      J("invalid", <<"<html>">>, <<>>) }

\* What happens to one POST: no response at all (status 0: connection error,
\* timeout), or a response with a status and a body.
NETWORK_ERROR == [status |-> 0, body |-> NoJson]
NoResponse == [status |-> 0, body |-> NoJson]
ServerOutcomes ==
    {NETWORK_ERROR}
    \cup {[status |-> 200, body |-> b] : b \in Bodies}
    \cup {[status |-> 500, body |-> J("object", <<"detail">>, <<"Internal Server Error">>)]}

\* response.is_success
IsSuccess(status) == status \in 200..299

\* Python: key in v
PyIn(key, v) ==
    CASE v.kind = "object" -> PyBool(\E i \in DOMAIN v.a : v.a[i] = key)
      [] v.kind = "array" -> PyBool(\E i \in DOMAIN v.a : v.a[i] = key)
      [] v.kind = "string" -> PyBool(Contains(v.a, <<key>>))
      [] OTHER -> "TypeError"

\* Python: v[key] for a string key; the value, or the exception raised
PyGetItem(v, key) ==
    IF v.kind = "object"
    THEN IF \E i \in DOMAIN v.a : v.a[i] = key
         THEN [raised |-> None,
               value |-> J("string", <<v.b[CHOOSE i \in DOMAIN v.a : v.a[i] = key]>>, <<>>)]
         ELSE [raised |-> "KeyError", value |-> NoJson]
    ELSE [raised |-> "TypeError", value |-> NoJson]

RECURSIVE ReprItems(_, _, _)
ReprItems(a, b, i) ==
    IF i > Len(a) THEN <<>>
    ELSE (IF i > 1 THEN <<", ">> ELSE <<>>)
         \o <<"'", a[i], "'">>
         \o (IF b # <<>> THEN <<": ", "'", b[i], "'">> ELSE <<>>)
         \o ReprItems(a, b, i + 1)

\* Python: f"{v}"
PyStr(v) ==
    CASE v.kind = "object" -> <<"{">> \o ReprItems(v.a, v.b, 1) \o <<"}">>
      [] v.kind = "array" -> <<"[">> \o ReprItems(v.a, <<>>, 1) \o <<"]">>
      [] v.kind = "string" -> v.a
      [] v.kind = "number" -> v.a
      [] OTHER -> <<"None">>

BITCOIN_CLIENT_TIMEOUT == 60
ANALYST_CLIENT_TIMEOUT == 120
ClientTimeout(s) ==
    IF s = BITCOIN_CLIENT THEN BITCOIN_CLIENT_TIMEOUT ELSE ANALYST_CLIENT_TIMEOUT

DEFAULT_BASE_URL == "http://localhost:8000"

\* The fixed list of example queries of each client.
test_queries(s) ==
    IF s = BITCOIN_CLIENT
    THEN <<"block height?", "network fee?", "recommended fee rate?", "latest block?">>
    ELSE <<"analyse ORDI", "compare ORDI and SATS", "top 10 ORDI holders", "risk of RAT">>

\* Command lines the client may be started with.
CommandLines(s) == {<<s>>, <<s, "http://agent.example:8000">>}

\* Mutant: the except clause of the driver loop names one exception class only.
ClientExceptClauseNarrow == "HTTPStatusError"

\* The class named by the except clause of the driver loop.
ClientExceptClause == "Exception"

----------------------------------------------------------------------------
(* Agent modules: start-up statements *)

clientIdle ==
    /\ argv = <<>> /\ base_url = <<>> /\ qi = 0 /\ clients = {} /\ inflight = {}
    /\ response = NoResponse /\ exc = None /\ result = NoJson
    /\ posts = <<>> /\ served = <<>>

\* A fresh interpreter about to execute an agent module.
Launch(s, main, mcpEnv, kbEnv) ==
    /\ script' = s
    /\ as_main' = main
    /\ environ' = [UNISAT_MCP_URL |-> mcpEnv, BRC20_KB_PATH |-> kbEnv]
    /\ pc' = "start"
    /\ out' = <<>>
    /\ UNISAT_MCP_URL' = None
    /\ KNOWLEDGE_BASE_PATH' = None
    /\ tools' = <<>>
    /\ has_mcp' = FALSE
    /\ knowledge' = None
    /\ instruction' = <<>>
    /\ agent' = NoAgent
    /\ short_term_memory' = None
    /\ server' = NoServer
    /\ calls' = <<>>
    /\ steps' = <<>>

Init ==
    /\ script \in AgentScripts
    /\ as_main \in BOOLEAN
    /\ environ \in [UNISAT_MCP_URL : McpUrlSettings, BRC20_KB_PATH : KbPathSettings]
    /\ script = BITCOIN_AGENT => environ.BRC20_KB_PATH = Unset
    /\ pc = "start"
    /\ out = <<>>
    /\ UNISAT_MCP_URL = None
    /\ KNOWLEDGE_BASE_PATH = None
    /\ tools = <<>>
    /\ has_mcp = FALSE
    /\ knowledge = None
    /\ instruction = <<>>
    /\ agent = NoAgent
    /\ short_term_memory = None
    /\ server = NoServer
    /\ calls = <<>>
    /\ steps = <<>>
    /\ past = <<>>
    /\ clientIdle

\* UNISAT_MCP_URL = os.getenv(...); KNOWLEDGE_BASE_PATH = os.getenv(...)
Configure ==
    /\ pc = "start"
    /\ script \in AgentScripts
    /\ UNISAT_MCP_URL' = GetEnv(environ.UNISAT_MCP_URL, DEFAULT_MCP_URL)
    /\ KNOWLEDGE_BASE_PATH' =
          IF script = ANALYST_AGENT
          THEN GetEnv(environ.BRC20_KB_PATH, DEFAULT_KB_PATH)
          ELSE KNOWLEDGE_BASE_PATH
    /\ steps' = Append(steps, "configure")
    /\ pc' = "mcp"
    /\ UNCHANGED <<script, as_main, environ, out, tools, has_mcp, knowledge,
                   instruction, agent, short_term_memory, server, calls, past,
                   clientVars>>

\* Mutant: the except branch tries the connection again instead of degrading.
InitMCPToolsetRetry ==
    /\ pc = "mcp"
    /\ \E o \in {"ok"} \cup ExceptionClasses :
          /\ calls' = Append(calls, Call("MCPToolset", o))
          /\ IF o = "ok"
             THEN /\ tools' = <<MCPToolset(UNISAT_MCP_URL)>>
                  /\ has_mcp' = TRUE
                  /\ pc' = IF script = ANALYST_AGENT THEN "kb_check" ELSE "compose"
             ELSE /\ tools' = <<>>
                  /\ has_mcp' = FALSE
                  /\ pc' = "mcp"
    /\ out' = out
    /\ steps' = Append(steps, "tool_connection")
    /\ UNCHANGED <<script, as_main, environ, UNISAT_MCP_URL, KNOWLEDGE_BASE_PATH,
                   knowledge, instruction, agent, short_term_memory, server, past,
                   clientVars>>

\* try: MCPToolset(...); tools = [...]; has_mcp = True
\* except Exception as e: print; print; tools = []; has_mcp = False
InitMCPToolset ==
    /\ pc = "mcp"
    /\ \E o \in {"ok"} \cup ExceptionClasses :
          /\ calls' = Append(calls, Call("MCPToolset", o))
          /\ IF o = "ok"
             THEN /\ tools' = <<MCPToolset(UNISAT_MCP_URL)>>
                  /\ has_mcp' = TRUE
                  /\ out' = out
                  /\ pc' = IF script = ANALYST_AGENT THEN "kb_check" ELSE "compose"
             ELSE IF IsInstance(o, McpExceptClause)
             THEN /\ tools' = <<>>
                  /\ has_mcp' = FALSE
                  /\ out' = out \o <<Line("warn_mcp_failed", <<o>>),
                                     Line("hint_mcp_url", <<UNISAT_MCP_URL>>)>>
                  /\ pc' = IF script = ANALYST_AGENT THEN "kb_check" ELSE "compose"
             ELSE /\ pc' = "crashed"
                  /\ UNCHANGED <<tools, has_mcp, out>>
    /\ steps' = Append(steps, "tool_connection")
    /\ UNCHANGED <<script, as_main, environ, UNISAT_MCP_URL, KNOWLEDGE_BASE_PATH,
                   knowledge, instruction, agent, short_term_memory, server, past,
                   clientVars>>

\* Mutant: the existence test is dropped and the store is always built.
KBCheckIgnoresMissing ==
    /\ pc = "kb_check"
    /\ knowledge' = None
    /\ \E exists \in BOOLEAN :
          calls' = Append(calls, Call("os.path.exists", PyBool(exists)))
    /\ pc' = "kb_construct"
    /\ out' = out
    /\ steps' = Append(steps, "knowledge_check")
    /\ UNCHANGED <<script, as_main, environ, UNISAT_MCP_URL, KNOWLEDGE_BASE_PATH,
                   tools, has_mcp, instruction, agent, short_term_memory, server,
                   past, clientVars>>

\* knowledge = None; if os.path.exists(KNOWLEDGE_BASE_PATH): ... else: print(Info)
KBCheck ==
    /\ pc = "kb_check"
    /\ knowledge' = None
    /\ \E exists \in BOOLEAN :
          /\ calls' = Append(calls, Call("os.path.exists", PyBool(exists)))
          /\ IF exists
             THEN /\ pc' = "kb_construct"
                  /\ out' = out
             ELSE /\ pc' = "compose"
                  /\ out' = Append(out, Line("info_kb_not_found", <<KNOWLEDGE_BASE_PATH>>))
    /\ steps' = Append(steps, "knowledge_check")
    /\ UNCHANGED <<script, as_main, environ, UNISAT_MCP_URL, KNOWLEDGE_BASE_PATH,
                   tools, has_mcp, instruction, agent, short_term_memory, server,
                   past, clientVars>>

\* try: knowledge = KnowledgeBase(backend="local")
\* except Exception as e: print(Warning: Knowledge base initialization failed)
KBConstruct ==
    /\ pc = "kb_construct"
    /\ \E o \in {"ok"} \cup ExceptionClasses :
          /\ calls' = Append(calls, Call("KnowledgeBase", o))
          /\ IF o = "ok"
             THEN /\ knowledge' = KB_STORE
                  /\ out' = out
                  /\ pc' = "kb_import"
             ELSE IF IsInstance(o, KbExceptClause)
             THEN /\ knowledge' = knowledge
                  /\ out' = Append(out, Line("warn_kb_init_failed", <<o>>))
                  /\ pc' = "compose"
             ELSE /\ pc' = "crashed"
                  /\ UNCHANGED <<knowledge, out>>
    /\ steps' = Append(steps, "load_knowledge")
    /\ UNCHANGED <<script, as_main, environ, UNISAT_MCP_URL, KNOWLEDGE_BASE_PATH,
                   tools, has_mcp, instruction, agent, short_term_memory, server,
                   past, clientVars>>

\* Mutant: a failed import (False) discards the store.
KBImportDropsStore ==
    /\ pc = "kb_import"
    /\ \E o \in {"True", "False"} \cup ExceptionClasses :
          /\ calls' = Append(calls, Call("add_from_directory", o))
          /\ knowledge' = IF o = "False" THEN None ELSE knowledge
          /\ out' = Append(out, IF o = "True"
                                THEN Line("kb_loaded", <<KNOWLEDGE_BASE_PATH>>)
                                ELSE IF o = "False"
                                THEN Line("warn_kb_load_failed", <<>>)
                                ELSE Line("warn_kb_init_failed", <<o>>))
    /\ pc' = "compose"
    /\ steps' = Append(steps, "import_knowledge")
    /\ UNCHANGED <<script, as_main, environ, UNISAT_MCP_URL, KNOWLEDGE_BASE_PATH,
                   tools, has_mcp, instruction, agent, short_term_memory,
                   server, past, clientVars>>

\* success = knowledge.add_from_directory(KNOWLEDGE_BASE_PATH)
\* if success: print(loaded) else: print(Warning: Failed to load knowledge base)
\* except Exception as e: print(Warning: Knowledge base initialization failed)
KBImport ==
    /\ pc = "kb_import"
    /\ \E o \in {"True", "False"} \cup ExceptionClasses :
          /\ calls' = Append(calls, Call("add_from_directory", o))
          /\ IF o = "True"
             THEN /\ out' = Append(out, Line("kb_loaded", <<KNOWLEDGE_BASE_PATH>>))
                  /\ pc' = "compose"
             ELSE IF o = "False"
             THEN /\ out' = Append(out, Line("warn_kb_load_failed", <<>>))
                  /\ pc' = "compose"
             ELSE IF IsInstance(o, KbExceptClause)
             THEN /\ out' = Append(out, Line("warn_kb_init_failed", <<o>>))
                  /\ pc' = "compose"
             ELSE /\ pc' = "crashed"
                  /\ out' = out
    /\ steps' = Append(steps, "import_knowledge")
    /\ UNCHANGED <<script, as_main, environ, UNISAT_MCP_URL, KNOWLEDGE_BASE_PATH,
                   tools, has_mcp, knowledge, instruction, agent, short_term_memory,
                   server, past, clientVars>>

\* Mutant: the warning is never appended.
ComposeNoWarning(template, connected) == template

\* template + ("" if has_mcp else warning)   /   if not has_mcp: instruction += warning
Compose(template, connected) ==
    template \o (IF connected THEN <<>> ELSE MCP_WARNING_SUFFIX)

ComposeInstruction ==
    /\ pc = "compose"
    /\ instruction' = Compose(Template(script), has_mcp)
    /\ steps' = Append(steps, "compose")
    /\ pc' = "assemble"
    /\ UNCHANGED <<script, as_main, environ, out, UNISAT_MCP_URL, KNOWLEDGE_BASE_PATH,
                   tools, has_mcp, knowledge, agent, short_term_memory, server,
                   calls, past, clientVars>>

\* Agent(name=..., description=..., instruction=..., tools=tools[, knowledgebase=knowledge])
CreateAgent ==
    /\ pc = "assemble"
    /\ agent' = [name |-> IF script = BITCOIN_AGENT THEN "bitcoin_query_agent"
                                                    ELSE "brc20_analyst",
                 instruction |-> instruction,
                 tools |-> tools,
                 knowledgebase |-> IF script = ANALYST_AGENT THEN knowledge ELSE None]
    /\ calls' = Append(calls, Call("Agent", "ok"))
    /\ steps' = Append(steps, "assemble")
    /\ pc' = "memory"
    /\ UNCHANGED <<script, as_main, environ, out, UNISAT_MCP_URL, KNOWLEDGE_BASE_PATH,
                   tools, has_mcp, knowledge, instruction, short_term_memory, server,
                   past, clientVars>>

\* short_term_memory = ShortTermMemory(backend="local") [; runner = Runner(...)]
ConfigureMemory ==
    /\ pc = "memory"
    /\ short_term_memory' = "ShortTermMemory(backend=local)"
    /\ calls' = calls \o <<Call("ShortTermMemory", "ok")>>
                      \o (IF script = BITCOIN_AGENT THEN <<Call("Runner", "ok")>> ELSE <<>>)
    /\ steps' = Append(steps, "memory")
    /\ pc' = "app"
    /\ UNCHANGED <<script, as_main, environ, out, UNISAT_MCP_URL, KNOWLEDGE_BASE_PATH,
                   tools, has_mcp, knowledge, instruction, agent, server, past,
                   clientVars>>

\* root_agent = ...; agent_server_app = AgentkitAgentServerApp(agent, short_term_memory)
CreateServerApp ==
    /\ pc = "app"
    /\ calls' = Append(calls, Call("AgentkitAgentServerApp", "ok"))
    /\ steps' = Append(steps, "server_app")
    /\ pc' = "main"
    /\ UNCHANGED <<script, as_main, environ, out, UNISAT_MCP_URL, KNOWLEDGE_BASE_PATH,
                   tools, has_mcp, knowledge, instruction, agent, short_term_memory,
                   server, past, clientVars>>

\* The banner printed by the __main__ block.
Banner ==
    <<Line("title", <<script>>),
      Line("mcp_url", <<UNISAT_MCP_URL>>),
      Line("mcp_connected", <<PyBool(has_mcp)>>)>>
    \o (IF script = ANALYST_AGENT
        THEN <<Line("kb_path", <<KNOWLEDGE_BASE_PATH>>),
               Line("kb_loaded_flag", <<PyBool(knowledge # None)>>)>>
        ELSE <<>>)
    \o <<Line("starting_server", <<SERVER_HOST>>)>>

\* if __name__ == "__main__": print banner; agent_server_app.run(host, port)
MainBlock ==
    /\ pc = "main"
    /\ IF as_main
       THEN /\ out' = out \o Banner
            /\ server' = [host |-> SERVER_HOST, port |-> SERVER_PORT]
            /\ calls' = Append(calls, Call("agent_server_app.run", "serving"))
            /\ steps' = Append(steps, "serve")
            /\ pc' = "serving"
       ELSE /\ pc' = "imported"
            /\ UNCHANGED <<out, server, calls, steps>>
    /\ UNCHANGED <<script, as_main, environ, UNISAT_MCP_URL, KNOWLEDGE_BASE_PATH,
                   tools, has_mcp, knowledge, instruction, agent, short_term_memory,
                   past, clientVars>>

\* The process ends and an agent module is launched again (a restart).
Relaunch ==
    /\ pc \in {"serving", "imported"}
    /\ Len(past) + 1 < MaxRuns
    /\ past' = Append(past, agent)
    /\ \E s \in AgentScripts, main \in BOOLEAN, m \in McpUrlSettings, k \in KbPathSettings :
          /\ s = BITCOIN_AGENT => k = Unset
          /\ Launch(s, main, m, k)
    /\ UNCHANGED clientVars

Next ==
    \/ Configure
    \/ InitMCPToolset
    \/ KBCheck
    \/ KBConstruct
    \/ KBImport
    \/ ComposeInstruction
    \/ CreateAgent
    \/ ConfigureMemory
    \/ CreateServerApp
    \/ MainBlock
    \/ Relaunch

Spec == Init /\ [][Next]_vars

\* The interpreter executes the next statement of the module whenever there is one.
FairSpec == Spec /\ WF_vars(Next)

----------------------------------------------------------------------------
(* Agent modules: properties *)

Assembled == agent.name # ""

\* What the external call fn answered in this launch, or None if it was not made.
CallResult(fn) ==
    IF \E i \in DOMAIN calls : calls[i].fn = fn
    THEN calls[CHOOSE i \in DOMAIN calls : calls[i].fn = fn].res
    ELSE None

Called(fn) == \E i \in DOMAIN calls : calls[i].fn = fn
Printed(tag) == \E i \in DOMAIN out : out[i].tag = tag

\* C1: at assembly, in both agents: MCPToolset raised => the agent's tool set is
\* empty, has_mcp is false and the instruction contains the warning sentence;
\* MCPToolset returned => the tool set is exactly the one handle, has_mcp is true
\* and the instruction does not contain the warning sentence.
C1_ToolSetFlagAndWarningAgree ==
    Assembled =>
        /\ CallResult("MCPToolset") \in ExceptionClasses \cup {"ok"}
        /\ CallResult("MCPToolset") \in ExceptionClasses =>
              /\ agent.tools = <<>>
              /\ ~has_mcp
              /\ Contains(agent.instruction, MCP_WARNING)
        /\ CallResult("MCPToolset") = "ok" =>
              /\ agent.tools = <<MCPToolset(UNISAT_MCP_URL)>>
              /\ has_mcp
              /\ ~Contains(agent.instruction, MCP_WARNING)

\* Both agents assembled, one degraded and one connected.
C1_Witness ==
    /\ Assembled
    /\ CallResult("MCPToolset") \in ExceptionClasses
    /\ Len(past) = 1
    /\ past[1].name # agent.name
    /\ past[1].tools # <<>>

\* C2: whatever MCPToolset, os.path.exists, KnowledgeBase and add_from_directory
\* answer, no exception leaves initialization and an agent module run as the
\* entry point eventually starts the server on 0.0.0.0:8000.
C2_StartupAlwaysReachesServe ==
    /\ [](pc # "crashed")
    /\ [](pc = "serving" => server = [host |-> SERVER_HOST, port |-> SERVER_PORT])
    /\ (pc = "start" /\ as_main) ~> (pc = "serving")

\* The analyst serves although the tool connection and the import both raised.
C2_Witness ==
    /\ pc = "serving"
    /\ script = ANALYST_AGENT
    /\ CallResult("MCPToolset") \in ExceptionClasses
    /\ CallResult("add_from_directory") \in ExceptionClasses

\* The analyst agents assembled by this launch and the earlier ones.
AnalystAgents ==
    {a \in {past[i] : i \in DOMAIN past} \cup (IF Assembled THEN {agent} ELSE {}) :
        a.name = "brc20_analyst"}

ToolsAvailable(a) == a.tools # <<>>
KnowledgeAttached(a) == a.knowledgebase # None

\* C4 (as claimed): two analyst start-ups that differ in tool availability or in
\* whether a knowledge store is attached have different instruction texts.
C4_InstructionReflectsToolsAndKnowledge ==
    \A a, b \in AnalystAgents :
        (ToolsAvailable(a) # ToolsAvailable(b)
            \/ KnowledgeAttached(a) # KnowledgeAttached(b))
        => a.instruction # b.instruction

\* C4 (amended): two analyst start-ups have different instruction texts exactly
\* when they differ in tool availability; the knowledge store is not reflected.
C4_InstructionReflectsToolsOnly ==
    \A a, b \in AnalystAgents :
        (ToolsAvailable(a) # ToolsAvailable(b)) <=> (a.instruction # b.instruction)

\* Two analyst start-ups, one connected and one degraded.
C4_Witness ==
    \E a, b \in AnalystAgents :
        ToolsAvailable(a) /\ ~ToolsAvailable(b) /\ KnowledgeAttached(a) # KnowledgeAttached(b)

\* C5 (as claimed): the directory exists and KnowledgeBase() or add_from_directory
\* raises => the warning is printed and the agent is assembled without a store.
C5_FailedKnowledgeInitLeavesNoStore ==
    (Assembled /\ script = ANALYST_AGENT /\ CallResult("os.path.exists") = "True"
        /\ (CallResult("KnowledgeBase") \in ExceptionClasses
              \/ CallResult("add_from_directory") \in ExceptionClasses))
    => (Printed("warn_kb_init_failed") /\ agent.knowledgebase = None)

\* C6: the directory exists, the store is built and the import returns: the store
\* is attached to the agent for True and for False; the result selects the line
\* printed (loaded / failed to load) and nothing else.
C6_ImportResultOnlySelectsLogLine ==
    (Assembled /\ script = ANALYST_AGENT
        /\ CallResult("add_from_directory") \in {"True", "False"})
    => /\ agent.knowledgebase = KB_STORE
       /\ Printed("kb_loaded") <=> CallResult("add_from_directory") = "True"
       /\ Printed("warn_kb_load_failed") <=> CallResult("add_from_directory") = "False"
       /\ ~Printed("warn_kb_init_failed")
       /\ agent.instruction = Compose(BRC20_ANALYST_INSTRUCTION, has_mcp)

\* The import returned False and the store is attached all the same.
C6_Witness ==
    /\ Assembled
    /\ script = ANALYST_AGENT
    /\ CallResult("add_from_directory") = "False"
    /\ agent.knowledgebase = KB_STORE

\* C7: the directory does not exist => no store is built, no import is tried, the
\* info line is printed, nothing is raised and the agent gets knowledgebase=None.
C7_MissingDirectoryMeansNoKnowledge ==
    (script = ANALYST_AGENT /\ CallResult("os.path.exists") = "False")
    => /\ ~Called("KnowledgeBase")
       /\ ~Called("add_from_directory")
       /\ Printed("info_kb_not_found")
       /\ ~Printed("warn_kb_init_failed")
       /\ knowledge = None
       /\ pc # "crashed"
       /\ Assembled => agent.knowledgebase = None

\* The analyst serves with no knowledge base because the directory is missing.
C7_Witness ==
    /\ pc = "serving"
    /\ script = ANALYST_AGENT
    /\ CallResult("os.path.exists") = "False"
    /\ agent.knowledgebase = None

\* The steps the start-up order is stated over.
IsStartupStep(s) ==
    s \in {"configure", "tool_connection", "compose", "load_knowledge", "assemble", "serve"}

StartupSteps == SelectSeq(steps, IsStartupStep)

IsBeforeServe(s) == s # "serve"

\* seq visits steps in strictly increasing rank: in order, each at most once.
StrictlyOrdered(seq, rank) ==
    \A i, j \in DOMAIN seq : i < j => rank[seq[i]] < rank[seq[j]]

ClaimedRank ==
    [s \in {"configure", "tool_connection", "compose", "load_knowledge", "assemble", "serve"} |->
        CASE s = "configure" -> 1
          [] s = "tool_connection" -> 2
          [] s = "compose" -> 3
          [] s = "load_knowledge" -> 4
          [] s = "assemble" -> 5
          [] s = "serve" -> 6]

CodeRank ==
    [s \in {"configure", "tool_connection", "compose", "load_knowledge", "assemble", "serve"} |->
        CASE s = "configure" -> 1
          [] s = "tool_connection" -> 2
          [] s = "load_knowledge" -> 3
          [] s = "compose" -> 4
          [] s = "assemble" -> 5
          [] s = "serve" -> 6]

\* C10 (as claimed): configure, tool connection, compose, load knowledge,
\* assemble, serve happen in this order, each at most once.
C10_StartupFollowsClaimedOrder == StrictlyOrdered(StartupSteps, ClaimedRank)

\* C10 (amended): configure, tool connection, load knowledge (analyst only, only
\* if the directory exists), compose, assemble, serve happen in this order, each
\* at most once; a served agent went through all of the unconditional steps.
C10_StartupFollowsCodeOrder ==
    /\ StrictlyOrdered(StartupSteps, CodeRank)
    /\ Contains(StartupSteps, <<"load_knowledge">>) =>
          (script = ANALYST_AGENT /\ CallResult("os.path.exists") = "True")
    /\ Assembled => SelectSeq(StartupSteps, IsBeforeServe) \in
              {<<"configure", "tool_connection", "compose", "assemble">>,
               <<"configure", "tool_connection", "load_knowledge", "compose", "assemble">>}
    /\ pc = "serving" => Contains(StartupSteps, <<"assemble", "serve">>)

\* The analyst serves after loading knowledge.
C10_Witness ==
    /\ pc = "serving"
    /\ script = ANALYST_AGENT
    /\ Contains(StartupSteps, <<"load_knowledge">>)

----------------------------------------------------------------------------
(* Test clients: main() and test_agent() *)

agentIdle ==
    /\ as_main = TRUE
    /\ environ = [UNISAT_MCP_URL |-> Unset, BRC20_KB_PATH |-> Unset]
    /\ UNISAT_MCP_URL = None /\ KNOWLEDGE_BASE_PATH = None
    /\ tools = <<>> /\ has_mcp = FALSE /\ knowledge = None /\ instruction = <<>>
    /\ agent = NoAgent /\ short_term_memory = None /\ server = NoServer
    /\ calls = <<>> /\ steps = <<>> /\ past = <<>>

\* asyncio.run(main()) of a client module
ClientInit ==
    /\ script \in ClientScripts
    /\ argv \in CommandLines(script)
    /\ pc = "c_start"
    /\ out = <<>>
    /\ base_url = <<>>
    /\ qi = 0
    /\ clients = {}
    /\ inflight = {}
    /\ response = NoResponse
    /\ exc = None
    /\ result = NoJson
    /\ posts = <<>>
    /\ served = <<>>
    /\ agentIdle

\* base_url = sys.argv[1] if len(sys.argv) > 1 else default; print the header
ClientStart ==
    /\ pc = "c_start"
    /\ script \in ClientScripts
    /\ base_url' = IF Len(argv) > 1 THEN <<argv[2]>> ELSE <<DEFAULT_BASE_URL>>
    /\ out' = out \o <<Line("title", <<script>>),
                       Line("server_address", base_url'),
                       Line("rule", <<"=">>)>>
    /\ qi' = 1
    /\ pc' = "c_loop"
    /\ UNCHANGED <<script, argv, clients, inflight, response, exc, result, posts,
                   served, agentVars>>

\* for query in test_queries: print(user line); print(rule); try: ...
LoopNext ==
    /\ pc = "c_loop"
    /\ IF qi <= Len(test_queries(script))
       THEN /\ out' = out \o <<Line("user", <<test_queries(script)[qi]>>),
                               Line("rule", <<"-">>)>>
            /\ pc' = "c_open"
       ELSE /\ out' = out
            /\ pc' = "c_done"
    /\ UNCHANGED <<script, argv, base_url, qi, clients, inflight, response, exc,
                   result, posts, served, agentVars>>

\* test_agent: async with httpx.AsyncClient(timeout=...) as client:
OpenClient ==
    /\ pc = "c_open"
    /\ clients' = clients \cup {qi}
    /\ exc' = None
    /\ pc' = "c_post"
    /\ UNCHANGED <<script, argv, base_url, qi, out, inflight, response, result,
                   posts, served, agentVars>>

\* payload = {"query": query}; await client.post(f"{base_url}/chat", json=payload)
SendPost ==
    /\ pc = "c_post"
    /\ posts' = Append(posts, [url |-> base_url \o <<"/chat">>,
                               json |-> J("object", <<"query">>, <<test_queries(script)[qi]>>),
                               timeout |-> ClientTimeout(script)])
    /\ inflight' = inflight \cup {qi}
    /\ pc' = "c_await"
    /\ UNCHANGED <<script, argv, base_url, qi, out, clients, response, exc, result,
                   served, agentVars>>

\* the awaited post resumes: with a response, or by raising a transport error
ReceiveResponse ==
    /\ pc = "c_await"
    /\ \E o \in ServerOutcomes :
          /\ served' = Append(served, o)
          /\ IF o = NETWORK_ERROR
             THEN /\ exc' = "ConnectError"
                  /\ response' = response
                  /\ pc' = "c_close"
             ELSE /\ exc' = exc
                  /\ response' = o
                  /\ pc' = "c_status"
    /\ inflight' = inflight \ {qi}
    /\ UNCHANGED <<script, argv, base_url, qi, out, clients, result, posts,
                   agentVars>>

\* response.raise_for_status()
RaiseForStatus ==
    /\ pc = "c_status"
    /\ IF IsSuccess(response.status)
       THEN /\ exc' = exc
            /\ pc' = "c_json"
       ELSE /\ exc' = "HTTPStatusError"
            /\ pc' = "c_close"
    /\ UNCHANGED <<script, argv, base_url, qi, out, clients, inflight, response,
                   result, posts, served, agentVars>>

\* return response.json()
ParseJson ==
    /\ pc = "c_json"
    /\ IF response.body.kind = "invalid"
       THEN /\ exc' = "JSONDecodeError"
            /\ result' = result
       ELSE /\ exc' = exc
            /\ result' = response.body
    /\ pc' = "c_close"
    /\ UNCHANGED <<script, argv, base_url, qi, out, clients, inflight, response,
                   posts, served, agentVars>>

\* Mutant: the client is not closed when the block is left.
CloseClientLeaks ==
    /\ pc = "c_close"
    /\ pc' = "c_handle"
    /\ UNCHANGED <<script, argv, base_url, qi, out, clients, inflight, response,
                   exc, result, posts, served, agentVars>>

\* leaving the async with block (return or exception): AsyncClient.__aexit__
CloseClient ==
    /\ pc = "c_close"
    /\ clients' = clients \ {qi}
    /\ pc' = "c_handle"
    /\ UNCHANGED <<script, argv, base_url, qi, out, inflight, response, exc,
                   result, posts, served, agentVars>>

\* What the body of the try statement does with the value test_agent returned:
\* the line it prints, or the exception it raises.
\*   if "answer" in result: print(result['answer'])  else: print(result)
PrintResult(r) ==
    LET t == PyIn("answer", r)
        v == PyGetItem(r, "answer")
    IN  IF t = "TypeError" THEN [raised |-> "TypeError", line |-> Line("", <<>>)]
        ELSE IF t = "False" THEN [raised |-> None, line |-> Line("response", PyStr(r))]
        ELSE IF v.raised # None THEN [raised |-> v.raised, line |-> Line("", <<>>)]
        ELSE [raised |-> None, line |-> Line("answer", PyStr(v.value))]

\* try: result = await test_agent(...); if/else print
\* except Exception as e: print(error)
HandleResult ==
    /\ pc = "c_handle"
    /\ LET raised == IF exc # None THEN exc ELSE PrintResult(result).raised
       IN  IF raised = None
           THEN /\ out' = Append(out, PrintResult(result).line)
                /\ pc' = "c_blank"
           ELSE IF IsInstance(raised, ClientExceptClause)
           THEN /\ out' = Append(out, Line("error", <<raised>>))
                /\ pc' = "c_blank"
           ELSE /\ out' = out
                /\ pc' = "crashed"
    /\ exc' = None
    /\ UNCHANGED <<script, argv, base_url, qi, clients, inflight, response, result,
                   posts, served, agentVars>>

\* print(); next iteration
PrintBlank ==
    /\ pc = "c_blank"
    /\ out' = Append(out, Line("blank", <<>>))
    /\ qi' = qi + 1
    /\ pc' = "c_loop"
    /\ UNCHANGED <<script, argv, base_url, clients, inflight, response, exc, result,
                   posts, served, agentVars>>

ClientNext ==
    \/ ClientStart
    \/ LoopNext
    \/ OpenClient
    \/ SendPost
    \/ ReceiveResponse
    \/ RaiseForStatus
    \/ ParseJson
    \/ CloseClient
    \/ HandleResult
    \/ PrintBlank

ClientSpec == ClientInit /\ [][ClientNext]_vars

----------------------------------------------------------------------------
(* Test clients: properties *)

IsOutcomeLine(l) == l.tag \in {"answer", "response", "error"}
OutcomeLines == SelectSeq(out, IsOutcomeLine)

\* Queries whose try statement has printed its outcome.
Handled == IF pc \in {"c_blank"} THEN qi ELSE IF pc = "c_start" THEN 0 ELSE qi - 1

\* The request failed: no response, or a non-2xx status.
RequestFailed(o) == ~IsSuccess(o.status)

IsJson(b) == b.kind \in {"object", "array", "string", "number", "null"}
HasAnswerKey(b) == b.kind = "object" /\ \E i \in DOMAIN b.a : b.a[i] = "answer"

\* C8 (as claimed): for every 2xx response whose body is any JSON value the
\* driver prints the value of "answer" when the body has that key and the whole
\* body otherwise, and no exception leaves the loop.
C8_AnswerOrWholeBodyForAnyJson ==
    /\ pc # "crashed"
    /\ \A i \in DOMAIN OutcomeLines :
          (IsSuccess(served[i].status) /\ IsJson(served[i].body)) =>
              OutcomeLines[i] =
                  IF HasAnswerKey(served[i].body)
                  THEN Line("answer", PyStr(PyGetItem(served[i].body, "answer").value))
                  ELSE Line("response", PyStr(served[i].body))

\* C9: the POSTs sent are the query list in order, one per query, each to
\* base_url/chat; at most one request is in flight and at most one client is
\* open, both belonging to the current query; a request is sent only when every
\* earlier round trip has ended and its client has been closed.
C9_RequestsStrictlySequential ==
    /\ Len(posts) <= Len(test_queries(script))
    /\ \A i \in DOMAIN posts :
          /\ posts[i].json = J("object", <<"query">>, <<test_queries(script)[i]>>)
          /\ posts[i].url = base_url \o <<"/chat">>
    /\ Cardinality(inflight) <= 1
    /\ Cardinality(clients) <= 1
    /\ inflight \subseteq clients
    /\ clients \subseteq {qi}
    /\ Len(served) + Cardinality(inflight) = Len(posts)
    /\ Len(posts) = IF pc \in {"c_start", "c_loop", "c_open", "c_post"} /\ qi > 0
                    THEN qi - 1
                    ELSE IF pc = "c_done" THEN Len(test_queries(script)) ELSE qi
    /\ pc = "c_await" => (inflight = {qi} /\ clients = {qi} /\ Len(served) = qi - 1)
    /\ pc \in {"c_loop", "c_done", "c_handle", "c_blank"} => (clients = {} /\ inflight = {})

\* The second request is in flight after the first one failed.
C9_Witness ==
    /\ pc = "c_await"
    /\ qi = 2
    /\ RequestFailed(served[1])
    /\ inflight = {2}

====
